---------------------------- MODULE Spec2Model ----------------------------
(***************************************************************************)
(* fastconv: conversion between an arbitrary-precision non-negative        *)
(* integer and its digit sequence in base B, in both directions, with      *)
(* worker processes that communicate through queues only.                  *)
(*                                                                         *)
(*   src/number_to_digits.py   get_ndigits, get_depth, process_internal,   *)
(*                             process_leaf, Worker, number_to_digits      *)
(*   src/digits_to_number.py   convert, combine, Worker, combine_results,  *)
(*                             digits_to_number                            *)
(*                                                                         *)
(* Indices are 0-based as in the source; a Python list is a TLA+ sequence  *)
(* and list element i is sequence element i + 1.                           *)
(***************************************************************************)
EXTENDS Integers, Sequences, FiniteSets, Bags, TLC

(***************************************************************************)
(* Bounds of the model.  The source fixes LEAF_TASK_DIGIT_LIMIT = 1000 and *)
(* reads the CPU count from the machine; the model draws both, the number, *)
(* the base and the digit sequence from small sets.                        *)
(***************************************************************************)
MaxN == 9
MaxBase == 3
MaxLen == 4
MaxCpu == 3
MaxLimit == 2
MaxEst == 4
MaxBlocks == 5
MaxResults == 6

Bases == 2..MaxBase
Limits == 1..MaxLimit
Cpus == 1..MaxCpu

\* Python's None: an empty list slot, and the sentinel on the task queue.
None == [none |-> TRUE]

RECURSIVE Pow(_, _)
\* base**e of Python, e >= 0
Pow(b, e) == IF e <= 0 THEN 1 ELSE b * Pow(b, e - 1)

RECURSIVE bit_length(_)
\* int.bit_length()
bit_length(x) == IF x = 0 THEN 0 ELSE 1 + bit_length(x \div 2)

RECURSIVE CeilLog(_, _, _)
\* the least d >= from with b^d >= target
CeilLog(b, target, from) ==
    IF Pow(b, from) >= target THEN from ELSE CeilLog(b, target, from + 1)

\* math.ceil(n.bit_length() / math.log2(base)): the least d with
\* d * log2(base) >= bit_length(n), that is base^d >= 2^bit_length(n)
Estimate(x, b) == CeilLog(b, Pow(2, bit_length(x)), 0)

\* digits[start:end] of Python (0-based, end exclusive, clipped to the list)
Slice(s, start, end) ==
    LET lo == IF start < Len(s) THEN start ELSE Len(s)
        hi == IF end < Len(s) THEN end ELSE Len(s)
    IN  IF hi <= lo THEN << >> ELSE SubSeq(s, lo + 1, hi)

Min(a, b) == IF a < b THEN a ELSE b

\* "use 3/4 of cpus": nworkers = cpu_count; nworkers -= nworkers // 4
nworkers_of(c) == c - (c \div 4)

-----------------------------------------------------------------------------
(***************************************************************************)
(* number_to_digits.py: the pure functions                                 *)
(***************************************************************************)

RECURSIVE get_depth_from_floor(_, _, _)
\* a mutant of get_depth_from: each halving is rounded down (the
\* `ndigits += 1` of line 59 is left out)
get_depth_from_floor(nd, depth, lim) ==
    IF nd > lim THEN get_depth_from_floor(nd \div 2, depth + 1, lim)
    ELSE depth

RECURSIVE get_depth_from(_, _, _)
get_depth_from(nd, depth, lim) ==
    IF nd > lim THEN get_depth_from((nd + 1) \div 2, depth + 1, lim) ELSE depth

\* get_depth(ndigits), with the leaf limit a parameter
get_depth(nd, lim) == get_depth_from(nd, 0, lim)

Task(number, nd, index, depth) ==
    [number |-> number, ndigits |-> nd, index |-> index, depth |-> depth]

\* a mutant of process_internal: the lower half is placed lower_ndigits
\* (not upper_ndigits) after the task's index
process_internal_lower_index(b, task) ==
    LET depth == task.depth - 1
        lower_ndigits == task.ndigits \div 2
        upper_ndigits == task.ndigits - lower_ndigits
        p == Pow(b, lower_ndigits)
    IN  << Task(task.number \div p, upper_ndigits, task.index, depth),
           Task(task.number % p, lower_ndigits,
                task.index + lower_ndigits, depth) >>

\* a mutant of process_internal: the number is divided by
\* base**upper_ndigits (not base**lower_ndigits)
process_internal_upper_power(b, task) ==
    LET depth == task.depth - 1
        lower_ndigits == task.ndigits \div 2
        upper_ndigits == task.ndigits - lower_ndigits
        p == Pow(b, upper_ndigits)
    IN  << Task(task.number \div p, upper_ndigits, task.index, depth),
           Task(task.number % p, lower_ndigits,
                task.index + upper_ndigits, depth) >>

\* a mutant of process_internal: the upper half is given ndigits // 2
\* digits too (not ndigits - lower_ndigits)
process_internal_upper_floor(b, task) ==
    LET depth == task.depth - 1
        lower_ndigits == task.ndigits \div 2
        upper_ndigits == task.ndigits \div 2
        p == Pow(b, lower_ndigits)
    IN  << Task(task.number \div p, upper_ndigits, task.index, depth),
           Task(task.number % p, lower_ndigits,
                task.index + upper_ndigits, depth) >>

\* process_internal(base, task): [upper, lower]
process_internal(b, task) ==
    LET depth == task.depth - 1
        lower_ndigits == task.ndigits \div 2
        upper_ndigits == task.ndigits - lower_ndigits
        p == Pow(b, lower_ndigits)
    IN  << Task(task.number \div p, upper_ndigits, task.index, depth),
           Task(task.number % p, lower_ndigits,
                task.index + upper_ndigits, depth) >>

RECURSIVE leaf_digits(_, _, _)
\* the loop of process_leaf: count digits of x, least significant extracted
\* first and stored last; what is left of x after count divisions is dropped
leaf_digits(b, x, count) ==
    IF count <= 0 THEN << >>
    ELSE Append(leaf_digits(b, x \div b, count - 1), x % b)

\* process_leaf(base, task): Result(index, digits)
process_leaf(b, task) ==
    [index |-> task.index, digits |-> leaf_digits(b, task.number, task.ndigits)]

RECURSIVE apply_from(_, _, _, _)
apply_from(out, i, ds, k) ==
    IF k > Len(ds) THEN out
    ELSE apply_from([out EXCEPT ![i + 1] = ds[k]], i + 1, ds, k + 1)

\* apply_result(digits, result): digits[i] = digit for i from result.index
apply_result(out, result) == apply_from(out, result.index, result.digits, 1)

RECURSIVE count_from(_, _, _, _)
count_from(cnt, i, ds, k) ==
    IF k > Len(ds) THEN cnt
    ELSE count_from([cnt EXCEPT ![i + 1] = @ + 1], i + 1, ds, k + 1)

RECURSIVE apply_all(_, _)
\* for result in return_values.get(): apply_result(digits, result)
apply_all(out, rs) ==
    IF rs = << >> THEN out ELSE apply_all(apply_result(out, Head(rs)), Tail(rs))

RECURSIVE count_all(_, _)
\* how often apply_result assigns each position (kept beside digits)
count_all(cnt, rs) ==
    IF rs = << >> THEN cnt
    ELSE count_all(count_from(cnt, Head(rs).index, Head(rs).digits, 1), Tail(rs))

-----------------------------------------------------------------------------
(***************************************************************************)
(* digits_to_number.py: the pure functions                                 *)
(***************************************************************************)

RECURSIVE convert_from(_, _, _, _, _)
convert_from(b, ds, i, stop, acc) ==
    IF i >= stop THEN acc
    ELSE convert_from(b, ds, i + 1, stop, acc * b + ds[i + 1])

\* convert(base, digits, range(start, stop)): Horner's method
convert(b, ds, start, stop) == convert_from(b, ds, start, stop, 0)

RECURSIVE combine_round_pair_weight(_, _, _, _, _)
\* a mutant of combine_round: the last pair is joined with base (not
\* last_base), as every other pair is
combine_round_pair_weight(ns, b, lb, i, new) ==
    LET remaining == Len(ns) - i
    IN  IF remaining <= 0 THEN << new, lb >>
        ELSE IF remaining > 2
        THEN combine_round_pair_weight(ns, b, lb, i + 2,
                 Append(new, ns[i + 1] * b + ns[i + 2]))
        ELSE IF remaining = 2
        THEN combine_round_pair_weight(ns, b, lb * b, i + 2,
                 Append(new, ns[i + 1] * b + ns[i + 2]))
        ELSE combine_round_pair_weight(ns, b, lb, i + 2,
                 Append(new, ns[i + 1]))

RECURSIVE combine_round(_, _, _, _, _)
\* one pass of the for loop of combine, from index i: <<new, last_base>>
combine_round(ns, b, lb, i, new) ==
    LET remaining == Len(ns) - i
    IN  IF remaining <= 0 THEN << new, lb >>
        ELSE IF remaining > 2
        THEN combine_round(ns, b, lb, i + 2,
                           Append(new, ns[i + 1] * b + ns[i + 2]))
        ELSE IF remaining = 2
        THEN combine_round(ns, b, lb * b, i + 2,
                           Append(new, ns[i + 1] * lb + ns[i + 2]))
        ELSE combine_round(ns, b, lb, i + 2, Append(new, ns[i + 1]))

RECURSIVE combine(_, _, _)
\* combine(nums, base, last_base): <<number, base>>; nums[0] of an empty
\* list is not modelled here (Worker.start fails before it calls combine)
combine(ns, b, lb) ==
    IF Len(ns) > 1
    THEN LET r == combine_round(ns, b, lb, 0, << >>)
         IN  IF Len(r[1]) > 1 THEN combine(r[1], b * b, r[2])
             ELSE << r[1][1], r[2] >>
    ELSE << ns[1], lb >>

RECURSIVE chunk_nums(_, _, _, _)
\* the for loop of Worker.start: one convert per chunk of at most lim digits
chunk_nums(b, ds, i, lim) ==
    IF i >= Len(ds) THEN << >>
    ELSE << convert(b, ds, i, i + Min(Len(ds) - i, lim)) >>
             \o chunk_nums(b, ds, i + lim, lim)

\* ndigits after the loop of Worker.start: the length of the last chunk
last_chunk_len(ds, lim) ==
    LET r == Len(ds) % lim IN IF r = 0 THEN lim ELSE r

Result(worker_id, number, b) ==
    [worker_id |-> worker_id, number |-> number, base |-> b]

\* Worker.start(worker_id, digits) for a non-empty digits: the Result it puts
worker_result(b, lim, worker_id, ds) ==
    LET c == combine(chunk_nums(b, ds, 0, lim), Pow(b, lim),
                     Pow(b, last_chunk_len(ds, lim)))
    IN  Result(worker_id, c[1], c[2])

\* a mutant of combine_result_pair: the Result keeps the worker_id of its
\* left input (the `// 2` of line 77 is left out)
combine_result_pair_keep_id(in0, in1) ==
    Result(in0.worker_id,
           in0.number * in1.base + in1.number,
           in0.base * in1.base)

\* combine_result_pair(inputs, results): the Result it puts
combine_result_pair(in0, in1) ==
    Result(in0.worker_id \div 2,
           in0.number * in1.base + in1.number,
           in0.base * in1.base)

-----------------------------------------------------------------------------
(***************************************************************************)
(* The state                                                               *)
(***************************************************************************)
VARIABLES
    call,           \* the entry point that was called
    n, base,        \* the arguments n and base
    limit,          \* LEAF_TASK_DIGIT_LIMIT
    cpus,           \* os.cpu_count()
    gn_pc, est, ndigits, max,   \* get_ndigits: position and locals
    n_pc,           \* number_to_digits: position of the coordinator
    tasks,          \* the JoinableQueue of Tasks and None sentinels (a bag)
    unfinished,     \* the JoinableQueue's count of unfinished tasks
    workers,        \* the worker processes of number_to_digits (a bag)
    return_values,  \* the Queue of Result lists
    signalled,      \* sentinels put so far
    collected,      \* Result lists got so far
    out, writes,    \* the digits list, and how often each position was assigned
    put_tasks,      \* every Task ever put on the task queue
    digits,         \* the argument digits of digits_to_number
    d_pc,           \* digits_to_number / combine_results: position
    dpw,            \* digits_per_worker
    procs,          \* the processes of the current stage
    results_queue,  \* the Queue of Results of the current stage
    got,            \* results got in the current collection loop
    results, new_results,   \* the lists results and new_results
    value,          \* the value digits_to_number returns
    c_args,         \* combine: the arguments nums, base and last_base
    c_pc,           \* combine: position
    nums, c_base, last_base     \* combine: the locals nums, base, last_base

gn_vars == << gn_pc, est, ndigits, max >>
n2d_vars == << n_pc, tasks, unfinished, workers, return_values,
               signalled, collected, out, writes, put_tasks >>
d2n_vars == << digits, d_pc, dpw, procs, results_queue, got, results,
               new_results, value >>
in_vars == << call, n, base, limit, cpus >>
cb_vars == << c_args, c_pc, nums, c_base, last_base >>
vars == << in_vars, gn_vars, n2d_vars, d2n_vars, cb_vars >>

\* the number of workers of number_to_digits
nworkers == nworkers_of(cpus)

DigitSeqs(b) == UNION { [1..k -> 0..(b - 1)] : k \in 1..MaxLen }

Idle ==
    /\ gn_pc = "idle" /\ est = 0 /\ ndigits = 0 /\ max = 0
    /\ n_pc = "idle" /\ tasks = EmptyBag /\ unfinished = 0
    /\ workers = EmptyBag
    /\ return_values = << >> /\ signalled = 0 /\ collected = 0
    /\ out = << >> /\ writes = << >> /\ put_tasks = EmptyBag
    /\ dpw = 0 /\ procs = << >> /\ results_queue = << >>
    /\ got = 0 /\ results = << >> /\ new_results = << >> /\ value = -1

\* combine is not running
CombineIdle ==
    /\ c_args = << >> /\ c_pc = "idle"
    /\ nums = << >> /\ c_base = 0 /\ last_base = 0

\* get_ndigits(n, base) is called on its own; the estimate of line 36 is
\* any number of digits from 0 to MaxEst
InitGetNdigits ==
    /\ call = "get_ndigits"
    /\ n \in 0..MaxN /\ base \in Bases /\ limit = 1 /\ cpus = 1
    /\ digits = << >> /\ d_pc = "idle"
    /\ Idle /\ CombineIdle

\* number_to_digits(n, base) is called
InitNumberToDigits ==
    /\ call = "number_to_digits"
    /\ n \in 0..MaxN /\ base \in Bases /\ limit \in Limits /\ cpus \in Cpus
    /\ digits = << >> /\ d_pc = "idle"
    /\ Idle /\ CombineIdle

\* digits_to_number(digits, base) is called with a non-empty list of digits
InitDigitsToNumber ==
    /\ call = "digits_to_number"
    /\ n = 0 /\ base \in Bases /\ limit \in Limits /\ cpus \in Cpus
    /\ digits \in DigitSeqs(base) /\ d_pc = "start"
    /\ Idle /\ CombineIdle

\* a call of get_ndigits or of number_to_digits
Init == InitGetNdigits \/ InitNumberToDigits

-----------------------------------------------------------------------------
(***************************************************************************)
(* get_ndigits                                                             *)
(***************************************************************************)

\* the estimates line 36 may produce
Estimates ==
    IF call = "get_ndigits" THEN 0..MaxEst ELSE { Estimate(n, base) }

\* lines 36-41, 48: the estimate, max = base**ndigits, and the branch
GetNdigitsEstimate ==
    /\ gn_pc = "idle" /\ n_pc = "idle" /\ d_pc = "idle"
    /\ call \in {"get_ndigits", "number_to_digits"}
    /\ \E e \in Estimates :
        /\ est' = e
        /\ ndigits' = e
        /\ max' = Pow(base, e)
        /\ gn_pc' = IF Pow(base, e) > n THEN "down" ELSE "up"
    /\ UNCHANGED << cb_vars, in_vars, n2d_vars, d2n_vars >>

\* a mutant of GetNdigitsDown: the `ndigits += 1` of line 47 is left out
GetNdigitsDownNoFixup ==
    /\ gn_pc = "down"
    /\ IF max > n
       THEN /\ max' = max \div base
            /\ ndigits' = ndigits - 1
            /\ gn_pc' = "down"
       ELSE /\ ndigits' = ndigits
            /\ gn_pc' = "done"
            /\ max' = max
    /\ UNCHANGED << cb_vars, est, in_vars, n2d_vars, d2n_vars >>

\* a mutant of GetNdigitsDown: the loop of lines 43-45 is left out, so the
\* estimate is returned when it is enough
GetNdigitsDownKeepEstimate ==
    /\ gn_pc = "down"
    /\ ndigits' = ndigits
    /\ gn_pc' = "done"
    /\ max' = max
    /\ UNCHANGED << cb_vars, est, in_vars, n2d_vars, d2n_vars >>

\* lines 43-47: one test of `while max > n`, its body or the exit
GetNdigitsDown ==
    /\ gn_pc = "down"
    /\ IF max > n
       THEN /\ max' = max \div base
            /\ ndigits' = ndigits - 1
            /\ gn_pc' = "down"
       ELSE /\ ndigits' = ndigits + 1
            /\ gn_pc' = "done"
            /\ max' = max
    /\ UNCHANGED << cb_vars, est, in_vars, n2d_vars, d2n_vars >>

\* lines 50-52: one test of `while max <= n`, its body or the exit
GetNdigitsUp ==
    /\ gn_pc = "up"
    /\ IF max <= n
       THEN /\ max' = max * base
            /\ ndigits' = ndigits + 1
            /\ gn_pc' = "up"
       ELSE /\ ndigits' = ndigits
            /\ gn_pc' = "done"
            /\ max' = max
    /\ UNCHANGED << cb_vars, est, in_vars, n2d_vars, d2n_vars >>

-----------------------------------------------------------------------------
(***************************************************************************)
(* number_to_digits: the coordinator and the workers.  The worker          *)
(* processes run the same Worker.start and carry no identifier, so the     *)
(* pool is the bag of their states.                                        *)
(***************************************************************************)

One(x) == SetToBag({x})

Zeros(k) == [i \in 1..k |-> 0]

\* a worker process: its position in Worker.start, the task it holds, and
\* its Worker._results
WorkerState(pc, task, rs) == [pc |-> pc, task |-> task, results |-> rs]

\* the worker in state w moves to state w2
Move(w, w2) == (workers (-) One(w)) (+) One(w2)

\* k copies of x
RECURSIVE Copies(_, _)
Copies(x, k) == IF k <= 0 THEN EmptyBag ELSE One(x) (+) Copies(x, k - 1)

\* lines 152-170: the root task is put and the workers are spawned
NStart ==
    /\ call = "number_to_digits" /\ n_pc = "idle" /\ gn_pc = "done"
    /\ LET root == Task(n, ndigits, 0, get_depth(ndigits, limit))
       IN  /\ tasks' = One(root)
           /\ put_tasks' = One(root)
    /\ unfinished' = 1
    /\ workers' = Copies(WorkerState("get", None, << >>), nworkers)
    /\ n_pc' = "join"
    /\ UNCHANGED << cb_vars, in_vars, gn_vars, d2n_vars, return_values, signalled,
                    collected, out, writes >>

\* line 134: task = self._tasks.get()
WGet(w) ==
    /\ w.pc = "get"
    /\ \E t \in BagToSet(tasks) :
        /\ tasks' = tasks (-) One(t)
        /\ workers' = Move(w, WorkerState(IF t = None THEN "break"
                                                      ELSE "process",
                                          t, w.results))
    /\ UNCHANGED << cb_vars, in_vars, gn_vars, d2n_vars, n_pc, unfinished,
                    return_values, signalled, collected, out, writes,
                    put_tasks >>

\* lines 126-130: _process_task: a leaf is solved, another task is split
WProcess(w) ==
    /\ w.pc = "process"
    /\ IF w.task.depth = 0
       THEN /\ workers' =
                  Move(w, WorkerState("task_done", w.task,
                                      Append(w.results,
                                             process_leaf(base, w.task))))
            /\ UNCHANGED << tasks, unfinished, put_tasks >>
       ELSE LET halves == process_internal(base, w.task)
            IN  /\ tasks' = tasks (+) One(halves[1]) (+) One(halves[2])
                /\ unfinished' = unfinished + 2
                /\ put_tasks' = put_tasks (+) One(halves[1]) (+) One(halves[2])
                /\ workers' = Move(w, WorkerState("task_done", w.task,
                                                  w.results))
    /\ UNCHANGED << cb_vars, in_vars, gn_vars, d2n_vars, n_pc, return_values,
                    signalled, collected, out, writes >>

\* a mutant of WTaskDone: the sentinel does not end the loop, the worker
\* goes back to tasks.get()
WTaskDoneLoop(w) ==
    /\ w.pc \in {"task_done", "break"}
    /\ unfinished' = unfinished - 1
    /\ workers' = Move(w, WorkerState("get", None, w.results))
    /\ UNCHANGED << cb_vars, in_vars, gn_vars, d2n_vars, n_pc, tasks,
                    return_values, signalled, collected, out, writes,
                    put_tasks >>

\* lines 136-140: finally: task_done(), after a task ("task_done") or after
\* the sentinel, which ends the loop ("break").  The local `task` is dead
\* from here on and is forgotten.
WTaskDone(w) ==
    /\ w.pc \in {"task_done", "break"}
    /\ unfinished' = unfinished - 1
    /\ workers' = Move(w, WorkerState(IF w.pc = "break" THEN "put" ELSE "get",
                                      None, w.results))
    /\ UNCHANGED << cb_vars, in_vars, gn_vars, d2n_vars, n_pc, tasks, return_values,
                    signalled, collected, out, writes, put_tasks >>

\* line 141: self._return_values.put(self._results); the process ends and
\* its memory is gone
WPut(w) ==
    /\ w.pc = "put"
    /\ return_values' = Append(return_values, w.results)
    /\ workers' = Move(w, WorkerState("exited", None, << >>))
    /\ UNCHANGED << cb_vars, in_vars, gn_vars, d2n_vars, n_pc, tasks, unfinished,
                    signalled, collected, out, writes, put_tasks >>

\* a mutant of NJoin: the coordinator goes on as soon as the queue is empty
NJoinWhenEmpty ==
    /\ n_pc = "join"
    /\ tasks = EmptyBag
    /\ n_pc' = "signal"
    /\ UNCHANGED << cb_vars, in_vars, gn_vars, d2n_vars, tasks, unfinished,
                    workers, return_values, signalled, collected, out,
                    writes, put_tasks >>

\* line 173: tasks.join() returns when no task is unfinished
NJoin ==
    /\ n_pc = "join"
    /\ unfinished = 0
    /\ n_pc' = "signal"
    /\ UNCHANGED << cb_vars, in_vars, gn_vars, d2n_vars, tasks, unfinished, workers,
                    return_values, signalled, collected, out, writes,
                    put_tasks >>

\* a mutant of NSignal: one sentinel is put for the whole pool
NSignalOnce ==
    /\ n_pc = "signal"
    /\ signalled < nworkers
    /\ tasks' = tasks (+) One(None)
    /\ unfinished' = unfinished + 1
    /\ signalled' = signalled + 1
    /\ n_pc' = "collect"
    /\ out' = Zeros(ndigits)
    /\ writes' = Zeros(ndigits)
    /\ UNCHANGED << cb_vars, in_vars, gn_vars, d2n_vars, workers,
                    return_values, collected, put_tasks >>

\* lines 176-180: one tasks.put(None); after the last, digits = [0] * ndigits
NSignal ==
    /\ n_pc = "signal"
    /\ signalled < nworkers
    /\ tasks' = tasks (+) One(None)
    /\ unfinished' = unfinished + 1
    /\ signalled' = signalled + 1
    /\ IF signalled + 1 = nworkers
       THEN /\ n_pc' = "collect"
            /\ out' = Zeros(ndigits)
            /\ writes' = Zeros(ndigits)
       ELSE UNCHANGED << n_pc, out, writes >>
    /\ UNCHANGED << cb_vars, in_vars, gn_vars, d2n_vars, workers, return_values,
                    collected, put_tasks >>

\* a mutant of NCollectDone: the loop ends when every live worker is heard
NCollectDoneLive(count) ==
    count = nworkers - CopiesIn(WorkerState("crashed", None, << >>), workers)

\* the loop of lines 181-183 ends after one get() per process
NCollectDone(count) == count = nworkers

\* lines 181-183: one return_values.get() and the apply_result of its Results
NCollect ==
    /\ n_pc = "collect"
    /\ return_values # << >>
    /\ out' = apply_all(out, Head(return_values))
    /\ writes' = count_all(writes, Head(return_values))
    /\ return_values' = Tail(return_values)
    /\ collected' = collected + 1
    /\ n_pc' = IF NCollectDone(collected + 1) THEN "pjoin" ELSE "collect"
    /\ UNCHANGED << cb_vars, in_vars, gn_vars, d2n_vars, tasks, unfinished, workers,
                    signalled, put_tasks >>

\* lines 186-188: p.join() of every process, then return digits
NProcJoin ==
    /\ n_pc = "pjoin"
    /\ \A w \in BagToSet(workers) : w.pc \in {"exited", "crashed"}
    /\ n_pc' = "returned"
    /\ UNCHANGED << cb_vars, in_vars, gn_vars, d2n_vars, tasks, unfinished, workers,
                    return_values, signalled, collected, out, writes,
                    put_tasks >>

-----------------------------------------------------------------------------
(***************************************************************************)
(* digits_to_number and combine_results: the coordinator and the processes *)
(***************************************************************************)

Nones(k) == [i \in 1..k |-> None]

\* a mutant of Slot: the Result is stored in the order of its arrival
SlotByArrival(result, arrival) == arrival

\* lines 135 and 101: results[result.worker_id] = result
Slot(result, arrival) == result.worker_id

\* the loops of lines 133-135 and 99-101 end after one get() per process
CollectDone(count) == count = Len(procs)

\* lines 112-129, 132: the worker count, the partition, the spawn
DStart ==
    /\ d_pc = "start"
    /\ LET nd == Len(digits)
           nw == Min(nworkers_of(cpus), nd)
       IN  IF nw = 0
           THEN \* line 117: (ndigits + nworkers - 1) // nworkers raises
                \* ZeroDivisionError
                /\ d_pc' = "raised"
                /\ UNCHANGED << dpw, procs, results >>
           ELSE /\ dpw' = (nd + nw - 1) \div nw
                /\ procs' = [i \in 1..nw |-> "running"]
                /\ results' = Nones(nw)
                /\ d_pc' = "collect"
    /\ got' = 0
    /\ UNCHANGED << cb_vars, in_vars, gn_vars, n2d_vars, digits, results_queue,
                    new_results, value >>

\* lines 55-68: Worker.start(i, digits[start:end]) in its own process.  With
\* an empty slice the loop of line 59 never binds ndigits and line 66 raises
\* UnboundLocalError: the process ends without a put.
DWorkerRun(i) ==
    /\ d_pc \in {"collect", "pjoin"}
    /\ procs[i + 1] = "running"
    /\ LET ds == Slice(digits, i * dpw, i * dpw + dpw)
       IN  IF ds = << >>
           THEN /\ procs' = [procs EXCEPT ![i + 1] = "crashed"]
                /\ UNCHANGED results_queue
           ELSE /\ procs' = [procs EXCEPT ![i + 1] = "exited"]
                /\ results_queue' =
                       Append(results_queue, worker_result(base, limit, i, ds))
    /\ UNCHANGED << cb_vars, in_vars, gn_vars, n2d_vars, digits, d_pc, dpw, got,
                    results, new_results, value >>

\* lines 133-135: one results_queue.get()
DCollect ==
    /\ d_pc = "collect"
    /\ results_queue # << >>
    /\ LET result == Head(results_queue)
       IN  results' = [results EXCEPT ![Slot(result, got) + 1] = result]
    /\ results_queue' = Tail(results_queue)
    /\ got' = got + 1
    /\ d_pc' = IF CollectDone(got + 1) THEN "pjoin" ELSE "collect"
    /\ UNCHANGED << cb_vars, in_vars, gn_vars, n2d_vars, digits, dpw, procs,
                    new_results, value >>

\* lines 138-140: p.join() of every process, then combine_results(results)
DProcJoin ==
    /\ d_pc = "pjoin"
    /\ \A i \in DOMAIN procs : procs[i] # "running"
    /\ d_pc' = "combine"
    /\ UNCHANGED << cb_vars, in_vars, gn_vars, n2d_vars, digits, dpw, procs,
                    results_queue, got, results, new_results, value >>

\* lines 82-96, 107: the loop test of combine_results; a round spawns one
\* process per pair and passes an odd last Result through, the exit returns
RRound ==
    /\ d_pc = "combine"
    /\ IF Len(results) > 1
       THEN LET len == Len(results)
                half == (len + 1) \div 2
            IN  /\ new_results' =
                       IF len % 2 = 1
                       THEN [Nones(half) EXCEPT ![half] = results[len]]
                       ELSE Nones(half)
                /\ procs' = [j \in 1..(len \div 2) |-> "running"]
                /\ got' = 0
                /\ d_pc' = "rcollect"
                /\ UNCHANGED value
       ELSE /\ value' = results[1].number
            /\ d_pc' = "returned"
            /\ UNCHANGED << new_results, procs, got >>
    /\ UNCHANGED << cb_vars, in_vars, gn_vars, n2d_vars, digits, dpw, results_queue,
                    results >>

\* lines 71-78: combine_result_pair(results[i:i+2], results_queue), i = 2j
RPairRun(j) ==
    /\ d_pc \in {"rcollect", "rjoin"}
    /\ procs[j + 1] = "running"
    /\ procs' = [procs EXCEPT ![j + 1] = "exited"]
    /\ results_queue' =
           Append(results_queue,
                  combine_result_pair(results[2 * j + 1], results[2 * j + 2]))
    /\ UNCHANGED << cb_vars, in_vars, gn_vars, n2d_vars, digits, d_pc, dpw, got,
                    results, new_results, value >>

\* lines 99-101: one results_queue.get()
RCollect ==
    /\ d_pc = "rcollect"
    /\ results_queue # << >>
    /\ LET result == Head(results_queue)
       IN  new_results' =
               [new_results EXCEPT ![Slot(result, got) + 1] = result]
    /\ results_queue' = Tail(results_queue)
    /\ got' = got + 1
    /\ d_pc' = IF CollectDone(got + 1) THEN "rjoin" ELSE "rcollect"
    /\ UNCHANGED << cb_vars, in_vars, gn_vars, n2d_vars, digits, dpw, procs, results,
                    value >>

\* lines 104-106: p.join() of every process; results = new_results
RProcJoin ==
    /\ d_pc = "rjoin"
    /\ \A j \in DOMAIN procs : procs[j] # "running"
    /\ results' = new_results
    /\ d_pc' = "combine"
    /\ UNCHANGED << cb_vars, in_vars, gn_vars, n2d_vars, digits, dpw, procs,
                    results_queue, got, new_results, value >>

\* the round trip: the list number_to_digits returned is handed to
\* digits_to_number with the same base
RoundTrip ==
    /\ call = "number_to_digits"
    /\ n_pc = "returned"
    /\ d_pc = "idle"
    /\ digits' = out
    /\ d_pc' = "start"
    /\ UNCHANGED << cb_vars, in_vars, gn_vars, n2d_vars, dpw, procs, results_queue,
                    got, results, new_results, value >>

\* get_ndigits and number_to_digits are not running
ReverseIdle ==
    /\ gn_pc = "idle" /\ est = 0 /\ ndigits = 0 /\ max = 0
    /\ n_pc = "idle" /\ tasks = EmptyBag /\ unfinished = 0
    /\ workers = EmptyBag
    /\ return_values = << >> /\ signalled = 0 /\ collected = 0
    /\ out = << >> /\ writes = << >> /\ put_tasks = EmptyBag

\* combine_results(results) is called with the Results of 1 to MaxResults
\* workers of one digit each, as line 140 calls it: results[i] is the
\* Result of worker i.  The digits are the least and the greatest of the
\* base.
InitCombineResults ==
    /\ call = "combine_results"
    /\ n = 0 /\ base \in Bases /\ limit = 1 /\ cpus = 1
    /\ \E k \in 1..MaxResults : digits \in [1..k -> {0, base - 1}]
    /\ dpw = 1
    /\ results =
           [i \in 1..Len(digits) |->
               worker_result(base, limit, i - 1, << digits[i] >>)]
    /\ d_pc = "combine"
    /\ procs = << >> /\ results_queue = << >> /\ got = 0
    /\ new_results = << >> /\ value = -1
    /\ ReverseIdle /\ CombineIdle

\* the steps of combine_results
Reduce ==
    \/ RRound
    \/ \E j \in 0..(Len(procs) - 1) : RPairRun(j)
    \/ RCollect
    \/ RProcJoin

-----------------------------------------------------------------------------
(***************************************************************************)
(* combine(nums, base, last_base), one round of its while loop at a time   *)
(***************************************************************************)

\* the weight of a block of one digit or of two
Weights(b) == {b, b * b}

\* the values a block takes in the model: the least two and the greatest
BlockValues(w) == {0, 1, w - 1}

\* combine(nums, base, last_base) is called with 1 to MaxBlocks blocks, the
\* last of which is as long as the others or shorter
InitCombine ==
    /\ call = "combine"
    /\ n = 0 /\ base \in Bases /\ limit = 1 /\ cpus = 1
    /\ digits = << >> /\ d_pc = "idle"
    /\ Idle
    /\ \E w \in Weights(base), lw \in Weights(base), k \in 1..MaxBlocks :
          /\ lw <= w
          /\ \E ns \in [1..k -> BlockValues(w)] :
                c_args = [nums |-> ns, base |-> w, last_base |-> lw]
    /\ c_pc = "loop"
    /\ nums = c_args.nums /\ c_base = c_args.base
    /\ last_base = c_args.last_base

\* lines 33-45: the loop test and one round; base is squared at line 45
\* when a round follows (the square taken before the exit is never read)
CombineRound ==
    /\ c_pc = "loop"
    /\ Len(nums) > 1
    /\ LET r == combine_round(nums, c_base, last_base, 0, << >>)
       IN  /\ nums' = r[1]
           /\ last_base' = r[2]
           /\ c_base' = IF Len(r[1]) > 1 THEN c_base * c_base ELSE c_base
    /\ UNCHANGED << in_vars, gn_vars, n2d_vars, d2n_vars, c_args, c_pc >>

\* lines 33, 46: the loop ends and (nums[0], last_base) is returned
CombineReturn ==
    /\ c_pc = "loop"
    /\ Len(nums) <= 1
    /\ c_pc' = "returned"
    /\ UNCHANGED << in_vars, gn_vars, n2d_vars, d2n_vars, c_args, nums,
                    c_base, last_base >>

\* the steps of combine
Combine == CombineRound \/ CombineReturn

-----------------------------------------------------------------------------
(***************************************************************************)
(* Failures of a worker process that the program does not cause itself     *)
(***************************************************************************)

\* a process of digits_to_number or combine_results dies before its put
DKill(i) ==
    /\ d_pc \in {"collect", "pjoin", "rcollect", "rjoin"}
    /\ procs[i] = "running"
    /\ procs' = [procs EXCEPT ![i] = "crashed"]
    /\ UNCHANGED << cb_vars, in_vars, gn_vars, n2d_vars, digits, d_pc, dpw,
                    results_queue, got, results, new_results, value >>

\* a worker of number_to_digits is killed before line 141
WKill(w) ==
    /\ w.pc \in {"get", "process", "task_done", "break", "put"}
    /\ workers' = Move(w, WorkerState("crashed", None, << >>))
    /\ UNCHANGED << cb_vars, in_vars, gn_vars, d2n_vars, n_pc, tasks, unfinished,
                    return_values, signalled, collected, out, writes,
                    put_tasks >>

\* _process_task raises in a worker of number_to_digits before its first
\* put: the finally of line 140 still calls task_done(), then the process
\* ends
WRaise(w) ==
    /\ w.pc = "process"
    /\ unfinished' = unfinished - 1
    /\ workers' = Move(w, WorkerState("crashed", None, << >>))
    /\ UNCHANGED << cb_vars, in_vars, gn_vars, d2n_vars, n_pc, tasks, return_values,
                    signalled, collected, out, writes, put_tasks >>

\* _process_task raises between the two puts of line 130: the upper half
\* is on the queue, task_done() is called, then the process ends
WRaiseBetweenPuts(w) ==
    /\ w.pc = "process"
    /\ w.task.depth > 0
    /\ LET upper == process_internal(base, w.task)[1]
       IN  /\ tasks' = tasks (+) One(upper)
           /\ put_tasks' = put_tasks (+) One(upper)
    /\ unfinished' = unfinished
    /\ workers' = Move(w, WorkerState("crashed", None, << >>))
    /\ UNCHANGED << cb_vars, in_vars, gn_vars, d2n_vars, n_pc, return_values,
                    signalled, collected, out, writes >>

-----------------------------------------------------------------------------
\* the steps of get_ndigits
GetNdigits ==
    \/ GetNdigitsEstimate
    \/ GetNdigitsDown
    \/ GetNdigitsUp

\* the steps of number_to_digits, those of its call of get_ndigits included
Reverse ==
    \/ GetNdigits
    \/ NStart
    \/ \E w \in BagToSet(workers) : WGet(w)
    \/ \E w \in BagToSet(workers) : WProcess(w)
    \/ \E w \in BagToSet(workers) : WTaskDone(w)
    \/ \E w \in BagToSet(workers) : WPut(w)
    \/ NJoin
    \/ NSignal
    \/ NCollect
    \/ NProcJoin

\* the steps of digits_to_number and combine_results
Forward ==
    \/ DStart
    \/ \E i \in 0..(Len(procs) - 1) : DWorkerRun(i)
    \/ \E j \in 0..(Len(procs) - 1) : RPairRun(j)
    \/ DCollect
    \/ DProcJoin
    \/ RRound
    \/ RCollect
    \/ RProcJoin

Next == Reverse \/ RoundTrip \/ Forward

Failure ==
    \/ \E i \in DOMAIN procs : DKill(i)
    \/ \E w \in BagToSet(workers) : WKill(w)
    \/ \E w \in BagToSet(workers) : WRaise(w)
    \/ \E w \in BagToSet(workers) : WRaiseBetweenPuts(w)

\* get_ndigits alone, or number_to_digits, alone or with its output handed
\* to digits_to_number, when nothing outside the program kills a process
Spec == Init /\ [][Next]_vars

\* get_ndigits on its own, from any estimate; it runs in one thread, which
\* takes its next step whenever it has one
SpecGetNdigits ==
    InitGetNdigits /\ [][GetNdigits]_vars /\ WF_vars(GetNdigits)

\* digits_to_number on any non-empty digit sequence
SpecForward == InitDigitsToNumber /\ [][Forward]_vars

\* the calls of Spec with worker processes that may fail
SpecCrash == Init /\ [][Next \/ Failure]_vars

\* digits_to_number when every process that can take a step is scheduled
\* in the end
SpecForwardFair ==
    InitDigitsToNumber /\ [][Forward]_vars /\ WF_vars(Forward)

\* get_ndigits alone, or number_to_digits, when every process that can take
\* a step is scheduled in the end
SpecReverseFair == Init /\ [][Reverse]_vars /\ WF_vars(Reverse)

\* combine_results on the Results of any number of workers
SpecReduce == InitCombineResults /\ [][Reduce]_vars

\* combine on any list of blocks
SpecCombine == InitCombine /\ [][Combine]_vars

-----------------------------------------------------------------------------
(***************************************************************************)
(* Reference definitions for the properties                                *)
(***************************************************************************)

\* the run can go no further
Halted == ~ENABLED Next

RECURSIVE SeqDigits(_, _)
\* sequential conversion by repeated division, most significant digit first
SeqDigits(x, b) ==
    IF x = 0 THEN << >> ELSE Append(SeqDigits(x \div b, b), x % b)

RECURSIVE PositionalSum(_, _, _)
PositionalSum(ds, b, i) ==
    IF i > Len(ds) THEN 0
    ELSE ds[i] * Pow(b, Len(ds) - i) + PositionalSum(ds, b, i + 1)

\* the value of a digit sequence: the sum of ds[i] * b^(len - 1 - i)
PositionalValue(ds, b) == PositionalSum(ds, b, 1)

RECURSIVE MinDigitsFrom(_, _, _)
MinDigitsFrom(x, b, d) ==
    IF x < Pow(b, d) THEN d ELSE MinDigitsFrom(x, b, d + 1)

\* the least d >= 1 with x < b^d (0 takes one digit)
MinDigits(x, b) == MinDigitsFrom(x, b, 1)

\* some worker of number_to_digits has failed before its put
WorkerCrashed == \E w \in BagToSet(workers) : w.pc = "crashed"

\* some process of digits_to_number has ended without a put
ProcCrashed == \E i \in DOMAIN procs : procs[i] = "crashed"

-----------------------------------------------------------------------------
(***************************************************************************)
(* C1.  Round trip: for every n >= 0, base >= 2 and CPU count >= 1,        *)
(* digits_to_number(number_to_digits(n, base), base) completes and returns *)
(* n: a call of number_to_digits whose output is handed on can only stop   *)
(* with digits_to_number returned and its value equal to n.                *)
(***************************************************************************)
C1_RoundTrip ==
    (call = "number_to_digits" /\ Halted) => (d_pc = "returned" /\ value = n)

(***************************************************************************)
(* C2.  Partition-invariance: for every non-empty digit sequence, base,    *)
(* CPU count and leaf chunk size, digits_to_number returns the positional  *)
(* value of the whole sequence: a call can only stop returned, with that   *)
(* value.                                                                  *)
(***************************************************************************)
C2_PartitionInvariance ==
    (call = "digits_to_number" /\ Halted) =>
        (d_pc = "returned" /\ value = PositionalValue(digits, base))

(***************************************************************************)
(* C3.  Depth-invariance: whatever the leaf limit (so the split depth) and *)
(* the worker count, number_to_digits returns the digits a sequential      *)
(* repeated division of n produces, most significant first.                *)
(***************************************************************************)
C3_DepthInvariance ==
    n_pc = "returned" => out = SeqDigits(n, base)

\* a number of three or more digits was split twice among several workers
C3_Witness ==
    /\ n_pc = "returned"
    /\ get_depth(ndigits, limit) >= 2
    /\ nworkers >= 2
    /\ Len(out) >= 3
    /\ out = SeqDigits(n, base)

(***************************************************************************)
(* C4.  Zero boundary: get_ndigits(0, base) returns 1 and                  *)
(* number_to_digits(0, base) returns [0].                                  *)
(***************************************************************************)
C4_ZeroBoundary ==
    /\ (n = 0 /\ gn_pc = "done") => ndigits = 1
    /\ (call = "number_to_digits" /\ n = 0 /\ n_pc = "returned") => out = << 0 >>

(***************************************************************************)
(* C5.  Exact digit count: for n >= 1 and any estimate >= 0, too high or   *)
(* too low, the correction loops of get_ndigits terminate and return the d *)
(* with base^(d-1) <= n < base^d.  Each loop keeps max = base^ndigits, the *)
(* downward loop keeps ndigits in 0..estimate and the upward loop keeps    *)
(* max <= n * base; every call comes to its return.                        *)
(***************************************************************************)
C5_ExactDigitCount ==
    /\ [](n >= 1 =>
            /\ gn_pc = "done" =>
                  /\ ndigits >= 1
                  /\ Pow(base, ndigits - 1) <= n
                  /\ n < Pow(base, ndigits)
            /\ gn_pc = "down" =>
                  /\ ndigits \in 0..est
                  /\ max = Pow(base, ndigits)
            /\ gn_pc = "up" =>
                  /\ ndigits >= est
                  /\ max = Pow(base, ndigits)
                  /\ max <= n * base)
    /\ (n >= 1 /\ gn_pc = "idle") ~> (gn_pc = "done")

\* get_ndigits has returned after an estimate at least two digits too high
C5_Witness ==
    /\ call = "get_ndigits"
    /\ gn_pc = "done"
    /\ n >= 1
    /\ est >= ndigits + 2
    /\ ndigits = MinDigits(n, base)

(***************************************************************************)
(* C6.  Minimality: the list number_to_digits returns never begins with a  *)
(* zero digit, unless it has length 1 and n = 0.                           *)
(***************************************************************************)
C6_Minimality ==
    (n_pc = "returned" /\ Len(out) >= 1) =>
        (out[1] # 0 \/ (Len(out) = 1 /\ n = 0))

\* number_to_digits has returned two or more digits of an n whose estimated
\* digit count was too high
C6_Witness ==
    /\ n_pc = "returned"
    /\ n >= 1
    /\ est > ndigits
    /\ Len(out) >= 2
    /\ out[1] # 0

-----------------------------------------------------------------------------
(***************************************************************************)
(* The Results of number_to_digits that are held in a list: in the         *)
(* Worker._results of a live worker or in a list on return_values          *)
(***************************************************************************)

RECURSIVE Repeat(_, _)
\* the list rs, k times over
Repeat(rs, k) == IF k <= 0 THEN << >> ELSE rs \o Repeat(rs, k - 1)

RECURSIVE WorkerLists(_)
\* the Worker._results of the workers of the set S, one after the other
WorkerLists(S) ==
    IF S = {} THEN << >>
    ELSE LET w == CHOOSE x \in S : TRUE
         IN  Repeat(w.results, CopiesIn(w, workers)) \o WorkerLists(S \ {w})

RECURSIVE QueueLists(_)
\* the lists on return_values from the k-th, one after the other
QueueLists(k) ==
    IF k > Len(return_values) THEN << >>
    ELSE return_values[k] \o QueueLists(k + 1)

\* every held Result, in one list
Held ==
    WorkerLists({w \in BagToSet(workers) : w.results # << >>}) \o QueueLists(1)

\* how many Results of the list rs equal r
CountInList(rs, r) == Cardinality({k \in DOMAIN rs : rs[k] = r})

\* the leaf tasks ever put
LeafTasks == {t \in BagToSet(put_tasks) : t.depth = 0}

RECURSIVE PutCount(_)
\* how many times the tasks of the set S were put, all together
PutCount(S) ==
    IF S = {} THEN 0
    ELSE LET t == CHOOSE x \in S : TRUE
         IN  CopiesIn(t, put_tasks) + PutCount(S \ {t})

\* how many of the leaf tasks ever put process_leaf turns into r
LeafCount(r) == PutCount({t \in LeafTasks : process_leaf(base, t) = r})

\* how often position p (0-based) of digits has been assigned
Written(p) == IF p + 1 \in DOMAIN writes THEN writes[p + 1] ELSE 0

\* exact tiling by the list held of the held Results, which cover position p
\* (0-based) cover[p + 1] times
ExactTiling(held, cover) ==
    /\ \A k \in DOMAIN held :
          /\ 0 <= held[k].index
          /\ held[k].index + Len(held[k].digits) <= ndigits
          /\ CountInList(held, held[k]) <= LeafCount(held[k])
    /\ \A p \in 0..(ndigits - 1) : cover[p + 1] + Written(p) <= 1
    /\ n_pc \in {"signal", "collect", "pjoin", "returned"} =>
          \A p \in 0..(ndigits - 1) : cover[p + 1] + Written(p) = 1
    /\ (n_pc = "signal" \/ (n_pc = "collect" /\ collected = 0)) =>
          /\ Len(held) = PutCount(LeafTasks)
          /\ \A t \in LeafTasks :
                CountInList(held, process_leaf(base, t))
                    = LeafCount(process_leaf(base, t))
    /\ n_pc \in {"pjoin", "returned"} =>
          \A p \in 0..(ndigits - 1) : Written(p) = 1

(***************************************************************************)
(* C7.  Arrival-order independence: in every interleaving and every order  *)
(* of arrival, a Result that digits_to_number collects sits in the slot of *)
(* its worker_id and holds the value of that worker's own digits, a Result *)
(* that a round of combine_results collects sits in the slot of its pair,  *)
(* an odd last Result is passed to the last slot, and each Result of       *)
(* number_to_digits is spliced at its own index: every position assigned   *)
(* so far holds its final digit.  The value returned, and the list         *)
(* returned, are those of the input alone.                                 *)
(***************************************************************************)
C7_ArrivalOrderIndependence ==
    /\ d_pc \in {"collect", "pjoin"} =>
          \A i \in DOMAIN results :
              results[i] # None =>
                  /\ results[i].worker_id = i - 1
                  /\ results[i].number =
                         PositionalValue(
                             Slice(digits, (i - 1) * dpw, i * dpw), base)
    /\ d_pc \in {"rcollect", "rjoin"} =>
          /\ \A j \in DOMAIN procs :
                 new_results[j] # None =>
                     new_results[j] =
                         combine_result_pair(results[2 * j - 1], results[2 * j])
          /\ Len(results) % 2 = 1 =>
                 new_results[Len(new_results)] = results[Len(results)]
    /\ d_pc = "returned" => value = PositionalValue(digits, base)
    /\ n_pc \in {"collect", "pjoin", "returned"} =>
          \A p \in DOMAIN out :
              writes[p] >= 1 => out[p] = SeqDigits(n, base)[p]
    /\ n_pc = "returned" => out = SeqDigits(n, base)

\* the first Result that digits_to_number got was not that of worker 0: it
\* was stored in its own slot and slot 0 is still empty
C7_Witness ==
    /\ d_pc = "collect"
    /\ got = 1
    /\ results[1] = None
    /\ \E i \in DOMAIN results : results[i] # None /\ results[i].worker_id = i - 1

(***************************************************************************)
(* C8.  Exact tiling: the index ranges of the leaf Results are pairwise    *)
(* disjoint, lie in [0, ndigits) and cover it: once tasks.join() has       *)
(* returned, every position is covered by exactly one Result, held in a    *)
(* list or already applied; when every list is applied every position has  *)
(* been assigned exactly once.  Each leaf Result is in exactly one list:   *)
(* before the first list is applied a Result is held as often as a leaf    *)
(* task produced it, never more, and after the join exactly as often.      *)
(***************************************************************************)
C8_ExactTiling ==
    n_pc # "idle" => ExactTiling(Held, count_all(Zeros(ndigits), Held))

\* one list has been applied and another, not empty, waits on the queue:
\* some positions are assigned and the others are still held
C8_Witness ==
    /\ n_pc = "collect"
    /\ collected = 1
    /\ return_values # << >>
    /\ Head(return_values) # << >>
    /\ \E p \in 0..(ndigits - 1) : Written(p) = 1
    /\ \E p \in 0..(ndigits - 1) :
          Written(p) = 0 /\ count_all(Zeros(ndigits), Held)[p + 1] = 1

(***************************************************************************)
(* C9.  Task digit-count invariant, as stated for n >= 1: every Task put   *)
(* on the task queue has ndigits equal to the minimal digit count of its   *)
(* number, and every split has upper_ndigits + lower_ndigits = ndigits.    *)
(***************************************************************************)
C9_MinimalDigitCount ==
    n >= 1 =>
        \A t \in BagToSet(put_tasks) :
            /\ t.ndigits = MinDigits(t.number, base)
            /\ t.depth > 0 =>
                  LET halves == process_internal(base, t)
                  IN  halves[1].ndigits + halves[2].ndigits = t.ndigits

(***************************************************************************)
(* C9, amended.  Every Task put on the task queue has ndigits >= 0 and     *)
(* 0 <= number < base^ndigits: ndigits digits hold the number, with        *)
(* leading zeros where a lower half has them.  The root of an n >= 1 has   *)
(* the minimal digit count of n, and so has every upper half of a task     *)
(* that has it.  Every split has upper_ndigits + lower_ndigits = ndigits,  *)
(* the lower half taking the floor.                                        *)
(***************************************************************************)
C9_TaskDigitCount ==
    \A t \in BagToSet(put_tasks) :
        /\ t.ndigits >= 0
        /\ 0 <= t.number /\ t.number < Pow(base, t.ndigits)
        /\ (n >= 1 /\ t.index = 0 /\ t.ndigits >= 1) =>
              t.ndigits = MinDigits(t.number, base)
        /\ (n >= 1 /\ t.index = 0) => t.ndigits >= 1
        /\ t.depth > 0 =>
              LET halves == process_internal(base, t)
              IN  /\ halves[1].ndigits + halves[2].ndigits = t.ndigits
                  /\ halves[2].ndigits = t.ndigits \div 2

\* a split has put a lower half of two digits whose first digit is zero
C9_Witness ==
    /\ n >= 1
    /\ \E t \in BagToSet(put_tasks) :
          /\ t.index > 0
          /\ t.ndigits >= 2
          /\ t.number < Pow(base, t.ndigits - 1)
          /\ t.ndigits > MinDigits(t.number, base)

(***************************************************************************)
(* C10.  An unhandled worker failure deadlocks the coordinator: once a     *)
(* worker has failed before its put, number_to_digits stays at the queue   *)
(* join or in the collection of the lists, digits_to_number stays in a     *)
(* collection loop, and no output, partial or wrong, is returned.          *)
(***************************************************************************)
C10_FailureBlocksCoordinator ==
    /\ WorkerCrashed =>
          /\ n_pc \in {"join", "signal", "collect"}
          /\ d_pc = "idle"
    /\ ProcCrashed =>
          /\ d_pc \in {"collect", "rcollect"}
          /\ value = -1

\* a worker raised in _process_task: the join has returned, every other
\* list is applied, and the coordinator waits for a list that never comes
C10_Witness ==
    /\ WorkerCrashed
    /\ nworkers >= 2
    /\ n_pc = "collect"
    /\ collected = nworkers - 1
    /\ return_values = << >>
    /\ \A w \in BagToSet(workers) : w.pc \in {"crashed", "exited"}

-----------------------------------------------------------------------------
RECURSIVE BlocksSum(_, _, _, _)
BlocksSum(ns, b, lb, i) ==
    IF i >= Len(ns) THEN 0
    ELSE ns[i] * Pow(b, Len(ns) - 1 - i) * lb + BlocksSum(ns, b, lb, i + 1)

\* the blocks of ns written one after the other, the last with weight lb and
\* every other with weight b:
\* sum of ns[i] * b^(k-2-i) * lb for i < k-1, plus ns[k-1] (0-based)
BlocksValue(ns, b, lb) == BlocksSum(ns, b, lb, 1) + ns[Len(ns)]

\* the weight of the whole list: lb * b^(k-1)
BlocksWeight(ns, b, lb) == lb * Pow(b, Len(ns) - 1)

(***************************************************************************)
(* C11.  Pairwise combiner correctness: at the start of every round of     *)
(* combine the last entry has weight last_base and every other entry has   *)
(* weight base, so the entries written one after the other have the value  *)
(* V and the weight W of the blocks combine was called with; combine       *)
(* returns (V, W), for every count of blocks, odd ones included.  The      *)
(* combine that Worker.start applies in one step returns the same pair.    *)
(***************************************************************************)
C11_CombineCorrect ==
    c_pc \in {"loop", "returned"} =>
        LET V == BlocksValue(c_args.nums, c_args.base, c_args.last_base)
            W == BlocksWeight(c_args.nums, c_args.base, c_args.last_base)
        IN  /\ Len(nums) >= 1
            /\ BlocksValue(nums, c_base, last_base) = V
            /\ BlocksWeight(nums, c_base, last_base) = W
            /\ c_pc = "returned" =>
                  /\ << nums[1], last_base >> = << V, W >>
                  /\ combine(c_args.nums, c_args.base, c_args.last_base)
                         = << V, W >>

\* combine has returned the value of five blocks, the last one shorter
C11_Witness ==
    /\ c_pc = "returned"
    /\ Len(c_args.nums) = 5
    /\ c_args.last_base < c_args.base
    /\ c_args.nums[1] # 0 /\ c_args.nums[5] # 0
    /\ nums[1] = BlocksValue(c_args.nums, c_args.base, c_args.last_base)

-----------------------------------------------------------------------------
\* the digit indices of the range of worker i: [i*dpw, (i+1)*dpw) clipped
\* to the digits there are
RangeOf(i) == { p \in 0..(Len(digits) - 1) : i * dpw <= p /\ p < (i + 1) * dpw }

(***************************************************************************)
(* C12.  Forward partition: once digits_to_number has spawned its          *)
(* workers, there are min(c - c//4, ndigits) of them, dpw is               *)
(* ceil(ndigits / nworkers), and the ranges [i*dpw, (i+1)*dpw) clipped to  *)
(* ndigits are each non-empty, do not overlap, and cover every digit index *)
(* exactly once.                                                           *)
(***************************************************************************)
C12_ForwardPartition ==
    d_pc \in {"collect", "pjoin"} =>
        LET nw == Len(procs)
        IN  /\ nw = Min(nworkers_of(cpus), Len(digits))
            /\ dpw * nw >= Len(digits) /\ (dpw - 1) * nw < Len(digits)
            /\ \A i \in 0..(nw - 1) :
                  /\ RangeOf(i) # {}
                  /\ Len(Slice(digits, i * dpw, i * dpw + dpw))
                         = Cardinality(RangeOf(i))
            /\ \A p \in 0..(Len(digits) - 1) :
                  Cardinality({i \in 0..(nw - 1) : p \in RangeOf(i)}) = 1

(***************************************************************************)
(* C13.  Forward pipeline termination: with fair scheduling and no process *)
(* killed from outside, the coordinator of digits_to_number leaves its     *)
(* collection loop with one Result from every worker, leaves the           *)
(* collection loop of every reduction round with one Result per pair, and  *)
(* the call returns in the end.                                            *)
(***************************************************************************)
C13_ForwardTermination ==
    /\ [](d_pc = "pjoin" =>
             /\ got = Len(procs)
             /\ \A i \in DOMAIN results : results[i] # None)
    /\ [](d_pc = "rjoin" =>
             /\ got = Len(procs)
             /\ Len(procs) = Len(results) \div 2
             /\ \A j \in DOMAIN new_results : new_results[j] # None)
    /\ <>(d_pc = "returned")

-----------------------------------------------------------------------------
RECURSIVE WorkerCount(_)
\* how many worker processes are in a state of the set S
WorkerCount(S) ==
    IF S = {} THEN 0
    ELSE LET w == CHOOSE x \in S : TRUE
         IN  CopiesIn(w, workers) + WorkerCount(S \ {w})

\* how many worker processes are at one of the positions pcs
WorkersAt(pcs) == WorkerCount({w \in BagToSet(workers) : w.pc \in pcs})

\* no Task is queued and none is held by a worker that has popped it
NoTaskLeft ==
    /\ \A t \in BagToSet(tasks) : t = None
    /\ WorkersAt({"process", "task_done"}) = 0

\* every task of the split tree has been processed: each task that was to
\* be split has both halves among the tasks put, and the Result of each
\* leaf task is in the list of some worker
TreeProcessed ==
    /\ NoTaskLeft
    /\ \A t \in BagToSet(put_tasks) :
          t.depth > 0 =>
              /\ process_internal(base, t)[1] \in BagToSet(put_tasks)
              /\ process_internal(base, t)[2] \in BagToSet(put_tasks)
    /\ Len(Held) = PutCount(LeafTasks)
    /\ \A t \in LeafTasks : CountInList(Held, process_leaf(base, t)) >= 1

(***************************************************************************)
(* C14.  Completion detection is never premature: the queue's count of     *)
(* unfinished tasks is the number of items queued plus the number popped   *)
(* and not yet marked done (each popped item is marked done once), it is   *)
(* never negative, and when it is zero at the join, and when the join has  *)
(* returned, every task of the split tree has been processed and every     *)
(* leaf Result is in some worker's list.                                   *)
(***************************************************************************)
C14_NoPrematureCompletion ==
    n_pc # "idle" =>
        /\ unfinished >= 0
        /\ unfinished = BagCardinality(tasks)
                            + WorkersAt({"process", "task_done", "break"})
        /\ (n_pc = "join" /\ unfinished = 0) => TreeProcessed
        /\ (n_pc = "signal" /\ signalled = 0) => TreeProcessed

\* the count is zero at the join after three or more tasks were shared
\* among several workers, two of which hold a Result
C14_Witness ==
    /\ n_pc = "join"
    /\ unfinished = 0
    /\ nworkers >= 2
    /\ BagCardinality(put_tasks) >= 3
    /\ Cardinality({w \in BagToSet(workers) : w.results # << >>}) >= 2

(***************************************************************************)
(* C15.  Shutdown protocol ordering: sentinels are put only after the join *)
(* has returned, one per worker, and the lists are collected only after    *)
(* the last of them; a sentinel is never popped while a Task is queued or  *)
(* held; every sentinel popped has ended the loop of one worker (no worker *)
(* pops two, none pops anything after it); every worker that has put its   *)
(* list has put it once, after its sentinel; the coordinator has got       *)
(* nworkers lists before it waits for the processes to exit.               *)
(***************************************************************************)
C15_ShutdownOrdering ==
    n_pc # "idle" =>
        /\ BagCardinality(workers) = nworkers
        /\ signalled \in 0..nworkers
        /\ n_pc = "join" => signalled = 0
        /\ n_pc \in {"collect", "pjoin", "returned"} => signalled = nworkers
        /\ signalled > 0 => NoTaskLeft
        /\ CopiesIn(None, tasks) + WorkersAt({"break", "put", "exited"})
               = signalled
        /\ collected + Len(return_values) = WorkersAt({"exited"})
        /\ collected \in 0..nworkers
        /\ n_pc \in {"join", "signal"} => collected = 0
        /\ n_pc \in {"pjoin", "returned"} =>
              /\ collected = nworkers
              /\ return_values = << >>

\* one worker has exited and its list is collected while another still
\* waits in tasks.get() for the sentinel that is queued for it
C15_Witness ==
    /\ n_pc = "collect"
    /\ collected >= 1
    /\ WorkersAt({"exited"}) >= 1
    /\ WorkersAt({"get"}) >= 1
    /\ CopiesIn(None, tasks) >= 1

(***************************************************************************)
(* C16.  Reverse pipeline termination: with fair scheduling and no worker  *)
(* failure, the count of unfinished tasks reaches zero and the join        *)
(* returns, every worker gets its sentinel and exits, the coordinator      *)
(* collects all the lists, and number_to_digits returns.                   *)
(***************************************************************************)
C16_ReverseTermination ==
    /\ (call = "number_to_digits" /\ n_pc = "idle")
           ~> (n_pc = "signal" /\ unfinished = 0)
    /\ (call = "number_to_digits" /\ n_pc = "idle")
           ~> (/\ n_pc = "returned"
               /\ collected = nworkers
               /\ WorkersAt({"exited"}) = nworkers)

\* number_to_digits has returned after two rounds of splits among several
\* workers
C16_Witness ==
    /\ n_pc = "returned"
    /\ nworkers >= 2
    /\ get_depth(ndigits, limit) >= 2
    /\ WorkersAt({"exited"}) = nworkers
    /\ unfinished = 0

(***************************************************************************)
(* C17.  Leaf size bound: every task put has a depth >= 0 that is enough   *)
(* halvings, each rounded up, to bring its ndigits down to the leaf limit, *)
(* so every task of depth 0 has ndigits <= limit.  A task is solved as a   *)
(* leaf if and only if its depth is 0: a worker that has processed a task  *)
(* of depth 0 has appended its process_leaf Result, one that has processed *)
(* a deeper task has put its two halves, and every Result held comes from  *)
(* a task of depth 0.                                                      *)
(***************************************************************************)
C17_LeafSizeBound ==
    /\ \A t \in BagToSet(put_tasks) :
          /\ t.depth >= 0
          /\ get_depth(t.ndigits, limit) <= t.depth
          /\ t.depth = 0 => t.ndigits <= limit
    /\ \A w \in BagToSet(workers) :
          w.pc = "task_done" =>
              IF w.task.depth = 0
              THEN /\ w.results # << >>
                   /\ w.results[Len(w.results)] = process_leaf(base, w.task)
              ELSE /\ process_internal(base, w.task)[1]
                          \in BagToSet(put_tasks)
                   /\ process_internal(base, w.task)[2]
                          \in BagToSet(put_tasks)
    /\ \A k \in DOMAIN Held : LeafCount(Held[k]) >= 1

\* an odd digit count was halved twice, rounding up, and a leaf as long as
\* the limit was solved
C17_Witness ==
    /\ n_pc = "returned"
    /\ ndigits % 2 = 1
    /\ get_depth(ndigits, limit) >= 2
    /\ \E t \in BagToSet(put_tasks) :
          t.depth = 0 /\ t.ndigits = limit /\ t.index > 0

(***************************************************************************)
(* C19.  No truncation at leaves: for n >= 1 every Task put has            *)
(* 0 <= number < base^ndigits, so the quotient process_leaf drops after    *)
(* ndigits divisions is zero and its digits have the value of the number;  *)
(* the digits of the upper half followed by those of the lower half are    *)
(* the digits of the task.                                                 *)
(***************************************************************************)
C19_NoTruncation ==
    n >= 1 =>
        \A t \in BagToSet(put_tasks) :
            /\ 0 <= t.number
            /\ t.number \div Pow(base, t.ndigits) = 0
            /\ PositionalValue(process_leaf(base, t).digits, base) = t.number
            /\ t.depth > 0 =>
                  LET halves == process_internal(base, t)
                  IN  process_leaf(base, halves[1]).digits
                          \o process_leaf(base, halves[2]).digits
                              = process_leaf(base, t).digits

\* a leaf holds the greatest number its digits can take, and a task of
\* three or more digits was split into two halves that are not zero
C19_Witness ==
    /\ n >= 1
    /\ \E t \in BagToSet(put_tasks) :
          /\ t.depth = 0 /\ t.ndigits >= 1
          /\ t.number = Pow(base, t.ndigits) - 1
    /\ \E t \in BagToSet(put_tasks) :
          /\ t.depth > 0 /\ t.ndigits >= 3
          /\ process_internal(base, t)[1].number > 0
          /\ process_internal(base, t)[2].number > 0
          /\ process_internal(base, t)[2] \in BagToSet(put_tasks)

-----------------------------------------------------------------------------
RECURSIVE ListNumber(_, _)
\* the Results rs[1..k] joined in order: each number shifted by the bases
\* of the Results after it
ListNumber(rs, k) ==
    IF k = 0 THEN 0 ELSE ListNumber(rs, k - 1) * rs[k].base + rs[k].number

RECURSIVE ListBase(_, _)
\* the product of the bases of rs[1..k]
ListBase(rs, k) == IF k = 0 THEN 1 ELSE ListBase(rs, k - 1) * rs[k].base

(***************************************************************************)
(* C18.  Reduction-tree slot discipline: in a round of combine_results     *)
(* over len Results there is one process per pair and (len + 1) // 2       *)
(* slots; every Result collected fills a slot that was still None (the     *)
(* slots filled are the Results collected, plus the odd one passed         *)
(* through), slot j holds the pair of the old entries 2j and 2j+1 in this  *)
(* order with worker_id j, the last slot holds an odd last entry           *)
(* unchanged, and no slot is None when the round ends.  At the start of    *)
(* every round each entry but the last has its index as worker_id, so a    *)
(* Result passed through with its old worker_id is never a left input,     *)
(* and the entries joined in order have the value of all the digits.       *)
(***************************************************************************)
C18_SlotDiscipline ==
    /\ d_pc \in {"rcollect", "rjoin"} =>
          LET len == Len(results)
              half == (len + 1) \div 2
          IN  /\ len >= 2
              /\ Len(new_results) = half
              /\ Len(procs) = len \div 2
              /\ Cardinality({j \in 1..half : new_results[j] # None})
                     = got + (len % 2)
              /\ \A j \in 1..(len \div 2) :
                    new_results[j] # None =>
                        /\ new_results[j].worker_id = j - 1
                        /\ new_results[j].number =
                               results[2 * j - 1].number * results[2 * j].base
                                   + results[2 * j].number
                        /\ new_results[j].base =
                               results[2 * j - 1].base * results[2 * j].base
              /\ len % 2 = 1 => new_results[half] = results[len]
              /\ d_pc = "rjoin" =>
                    /\ got = len \div 2
                    /\ \A j \in 1..half : new_results[j] # None
    /\ d_pc \in {"combine", "rcollect", "rjoin"} =>
          /\ \A i \in 1..(Len(results) - 1) : results[i].worker_id = i - 1
          /\ ListNumber(results, Len(results)) = PositionalValue(digits, base)
          /\ ListBase(results, Len(results)) = Pow(base, Len(digits))

\* a round over an even count of Results whose last entry was passed
\* through an earlier round and still has its old worker_id: it is the
\* right input of the last pair, and the pair is collected in its slot
C18_Witness ==
    /\ call = "combine_results"
    /\ d_pc = "rjoin"
    /\ Len(results) % 2 = 0
    /\ results[Len(results)].worker_id > Len(results) - 1
    /\ new_results[Len(new_results)].worker_id = Len(new_results) - 1
    /\ new_results[Len(new_results)].number > 0

=============================================================================
